---- MODULE Spec2Model ----
(***************************************************************************)
(* onobot: a Telegram moderation bot.  The model covers                    *)
(*   - cache.rs : Cache (sled key/value store; key "<a>/<b>", value the    *)
(*                bincode bytes of the message id),                        *)
(*   - api.rs   : Callback (serde_json codec), API::new, API::run,         *)
(*                API::handle, handle_message, handle_callback, ask_admin, *)
(*                send_ot_alert, get_original_message_id.                  *)
(* Strings are sequences of one-character strings, so that formatting and  *)
(* parsing are computed character by character.                            *)
(***************************************************************************)
EXTENDS Integers, Sequences, FiniteSets, TLC

\* the fields of the records of this module; every record below is written
\* with its fields in this (alphabetical) order
FieldNames ==
    DOMAIN [cache |-> 0, chat |-> 0, data |-> 0, date |-> 0, err |-> 0, forward |-> 0,
            from |-> 0, id |-> 0, kind |-> 0, ok |-> 0, panic |-> 0, pos |-> 0, query |-> 0,
            reply_to |-> 0, res |-> 0, row |-> 0, sent |-> 0, some |-> 0, text |-> 0,
            type |-> 0, url |-> 0, user |-> 0, v |-> 0, val |-> 0, variant |-> 0]

\* ------------------------------------------------------------------ bounds
\* user ids are 1..MaxUser
MaxUser == 2
\* the users 1..MaxAdmin are administrators of the main group
MaxAdmin == 1
\* message dates are 1..MaxDate
MaxDate == 2
\* message ids are 1..MaxMsgId
MaxMsgId == 2
\* number of updates the event loop takes from the stream in one run
MaxEvents == 4
\* the codec is exercised on message ids -MaxCodecId..MaxCodecId
MaxCodecId == 11

\* ------------------------------------------------------------ option type
None == [some |-> FALSE, v |-> 0]
Some(x) == [some |-> TRUE, v |-> x]

\* ------------------------------------------------------- integer <-> text
DigitChars == <<"0", "1", "2", "3", "4", "5", "6", "7", "8", "9">>

IsDigit(c) == \E i \in 1..10 : DigitChars[i] = c

DigitVal(c) == (CHOOSE i \in 1..10 : DigitChars[i] = c) - 1

\* Display of a natural number (decimal, no leading zeros)
RECURSIVE NatToString(_)
NatToString(n) ==
    IF n < 10 THEN <<DigitChars[n + 1]>>
    ELSE NatToString(n \div 10) \o <<DigitChars[(n % 10) + 1]>>

\* Display of an i64 as format!("{}", n) and serde_json write it
IntToString(n) == IF n < 0 THEN <<"-">> \o NatToString(0 - n) ELSE NatToString(n)

\* ------------------------------------------------ Callback::to_string
\* the text  {"Offtopic":{"id":
OfftopicName == <<"O", "f", "f", "t", "o", "p", "i", "c">>
IdName == <<"i", "d">>
Quoted(name) == <<"\"">> \o name \o <<"\"">>
VariantOpen == <<"{">> \o Quoted(OfftopicName) \o <<":">>
StructOpen == <<"{">> \o Quoted(IdName) \o <<":">>

\* Callback::Offtopic { id }
Offtopic(id) == [id |-> id, variant |-> "Offtopic"]

\* the token field of a Result or Option that holds no token
NoToken == [id |-> 0, variant |-> "None"]

\* serde_json::to_string(self): externally tagged enum, struct variant,
\* MessageId written as the bare integer; never fails for this type.
to_string_mut_unsigned(cb) ==
    VariantOpen \o StructOpen \o NatToString(IF cb.id < 0 THEN 0 - cb.id ELSE cb.id) \o <<"}", "}">>

to_string(cb) ==
    VariantOpen \o StructOpen \o IntToString(cb.id) \o <<"}", "}">>

\* ---------------------------------------------- Callback::from_string
\* Result<T>
Ok(x) == [err |-> "none", ok |-> TRUE, v |-> x]
Err(kind) == [err |-> kind, ok |-> FALSE, v |-> 0]

\* Result<Callback>
DecodeOk(tok) == [err |-> "none", ok |-> TRUE, v |-> tok]
DecodeErr == [err |-> "decode", ok |-> FALSE, v |-> NoToken]

\* what the deserializer returns at a position: failure, or a value and the
\* position after it
PFail == [ok |-> FALSE, pos |-> 0, val |-> 0]
POk(pos, val) == [ok |-> TRUE, pos |-> pos, val |-> val]

\* the character at p, "EOF" past the end of the input
At(s, p) == IF p >= 1 /\ p <= Len(s) THEN s[p] ELSE "EOF"

\* JSON insignificant whitespace
IsWs(c) == c \in {" ", "\t", "\n", "\r"}

\* Deserializer::parse_whitespace: the first position at or after p holding
\* no whitespace
RECURSIVE SkipWs(_, _)
SkipWs(s, p) == IF IsWs(At(s, p)) THEN SkipWs(s, p + 1) ELSE p

\* the position of the quote closing a string whose text starts at p, 0 if the
\* input ends first (inputs hold no escapes and no control characters)
RECURSIVE StrEnd(_, _)
StrEnd(s, p) ==
    IF p > Len(s) THEN 0
    ELSE IF s[p] = "\"" THEN p
    ELSE StrEnd(s, p + 1)

\* a JSON string at p: its text and the position after the closing quote
ParseStr(s, p) ==
    IF At(s, p) # "\"" THEN PFail
    ELSE LET e == StrEnd(s, p + 1)
         IN  IF e = 0 THEN PFail ELSE POk(e + 1, SubSeq(s, p + 1, e - 1))

\* the first position at or after p holding no digit
RECURSIVE DigitsEnd(_, _)
DigitsEnd(s, p) == IF IsDigit(At(s, p)) THEN DigitsEnd(s, p + 1) ELSE p

\* the value of the digits s[p..e-1]
RECURSIVE DigitsVal(_, _, _)
DigitsVal(s, p, e) ==
    IF e <= p THEN 0 ELSE DigitsVal(s, p, e - 1) * 10 + DigitVal(s[e - 1])

\* deserialize_i64 at p (whitespace already skipped): an optional minus, then
\* 0 or a digit string without leading zero; a fraction or exponent makes the
\* number a float, and "-0" is read as the float -0.0: both are type errors
\* for an integer field.
ParseI64(s, p) ==
    LET neg == At(s, p) = "-"
        q == IF neg THEN p + 1 ELSE p
        e == IF At(s, q) = "0" THEN q + 1 ELSE DigitsEnd(s, q)
        n == DigitsVal(s, q, e)
    IN  IF ~IsDigit(At(s, q)) THEN PFail
        ELSE IF At(s, q) = "0" /\ IsDigit(At(s, q + 1)) THEN PFail
        ELSE IF At(s, e) \in {".", "e", "E"} THEN PFail
        ELSE IF neg /\ n = 0 THEN PFail
        ELSE POk(e, IF neg THEN 0 - n ELSE n)

\* ws ':' ws
ParseColon(s, p) ==
    LET q == SkipWs(s, p)
    IN  IF At(s, q) = ":" THEN POk(SkipWs(s, q + 1), 0) ELSE PFail

\* MapAccess over the fields of Offtopic { id }, from position p (after '{' or
\* after a value); id is the field read so far.  Unknown fields are skipped
\* (their values are integers in every input used), a second "id" is a
\* duplicate-field error, a missing "id" a missing-field error.  The result is
\* the id and the position after the closing '}'.
RECURSIVE ParseFields(_, _, _, _)
ParseFields(s, p, first, id) ==
    LET q == SkipWs(s, p)
        k == IF At(s, q) = "," /\ ~first THEN SkipWs(s, q + 1) ELSE q
        key == ParseStr(s, k)
        col == ParseColon(s, key.pos)
        val == ParseI64(s, col.pos)
    IN  IF At(s, q) = "}"
        THEN IF id.some THEN POk(q + 1, id.v) ELSE PFail
        ELSE IF ~first /\ At(s, q) # "," THEN PFail
        ELSE IF ~key.ok THEN PFail
        ELSE IF ~col.ok THEN PFail
        ELSE IF ~val.ok THEN PFail
        ELSE IF key.val = IdName
        THEN IF id.some THEN PFail ELSE ParseFields(s, val.pos, FALSE, Some(val.val))
        ELSE ParseFields(s, val.pos, FALSE, id)

\* SeqAccess over the fields of Offtopic { id } given positionally: "[" id "]"
ParseTuple(s, p) ==
    LET q == SkipWs(s, p)
        val == ParseI64(s, q)
        e == SkipWs(s, val.pos)
    IN  IF ~val.ok THEN PFail
        ELSE IF At(s, e) = "]" THEN POk(e + 1, val.val)
        ELSE PFail

\* deserialize_struct at p: a map or a sequence
ParseStruct(s, p) ==
    LET q == SkipWs(s, p)
    IN  IF At(s, q) = "{" THEN ParseFields(s, q + 1, TRUE, None)
        ELSE IF At(s, q) = "[" THEN ParseTuple(s, q + 1)
        ELSE PFail

\* serde_json::from_str::<Callback>(s): ws '{' ws "Offtopic" ws ':' struct ws
\* '}' ws end-of-input.  A bare string (unit variant form) is a type error for
\* a struct variant; any other variant name is an unknown-variant error;
\* anything after the value is a trailing-characters error.
from_str(s) ==
    LET p0 == SkipWs(s, 1)
        tag == ParseStr(s, SkipWs(s, p0 + 1))
        col == ParseColon(s, tag.pos)
        body == ParseStruct(s, col.pos)
        close == SkipWs(s, body.pos)
    IN  IF At(s, p0) # "{" THEN DecodeErr
        ELSE IF ~tag.ok THEN DecodeErr
        ELSE IF tag.val # OfftopicName THEN DecodeErr
        ELSE IF ~col.ok THEN DecodeErr
        ELSE IF ~body.ok THEN DecodeErr
        ELSE IF At(s, close) # "}" THEN DecodeErr
        ELSE IF SkipWs(s, close + 1) <= Len(s) THEN DecodeErr
        ELSE DecodeOk(Offtopic(body.val))

\* a decoder that falls back to a default token instead of failing
from_string_mut_default(s) ==
    IF from_str(s).ok THEN from_str(s) ELSE DecodeOk(Offtopic(0))

\* Callback::from_string: Ok(serde_json::from_str(s.as_str())?)
from_string(s) ==
    IF from_str(s).ok THEN DecodeOk(from_str(s).v) ELSE DecodeErr

\* -------------------------------------------------------------- cache.rs
\* format!("{}/{}", time, user_name)
Cache_key_mut_first_only(time, user_name) ==
    IntToString(time) \o <<"/">>

Cache_key(time, user_name) ==
    IntToString(time) \o <<"/">> \o IntToString(user_name)

\* n as k little-endian bytes (n >= 0 in every use: message ids are positive)
RECURSIVE LEBytes(_, _)
LEBytes(n, k) == IF k = 0 THEN <<>> ELSE <<n % 256>> \o LEBytes(n \div 256, k - 1)

\* the number k little-endian bytes stand for
RECURSIVE LEValue(_)
LEValue(b) == IF Len(b) = 0 THEN 0 ELSE b[1] + 256 * LEValue(Tail(b))

\* bincode::serialize(&m): MessageId is a newtype over i64, 8 bytes
bincode_serialize(m) == LEBytes(m, 8)

\* bincode::deserialize::<i64>(bytes); fewer than 8 bytes is an error
\* ("invalid value")
bincode_deserialize(b) == IF Len(b) = 8 THEN Ok(LEValue(b)) ELSE Err("invalid value")

\* Cache::get on the store db (a function from keys to byte strings)
Cache_get(db, time, user_name) ==
    LET key == Cache_key(time, user_name)
    IN  IF key \notin DOMAIN db THEN None
        ELSE Some(bincode_deserialize(db[key]).v)

\* Cache::set: sled insert, an upsert
Cache_set_mut_keep_first(db, time, user_name, m) ==
    LET key == Cache_key(time, user_name)
    IN  [k \in DOMAIN db \cup {key} |->
            IF k \in DOMAIN db THEN db[k] ELSE bincode_serialize(m)]

\* an insert that drops every other entry of the store
Cache_set_mut_evict_others(db, time, user_name, m) ==
    [k \in {Cache_key(time, user_name)} |-> bincode_serialize(m)]

Cache_set(db, time, user_name, m) ==
    LET key == Cache_key(time, user_name)
    IN  [k \in DOMAIN db \cup {key} |->
            IF k = key THEN bincode_serialize(m) ELSE db[k]]

\* ------------------------------------------------------------ the inputs
Users == 1..MaxUser
Dates == 1..MaxDate
MessageIds == 1..MaxMsgId

\* cfg.main_group, and the id of one other group the bot is a member of
MainGroup == 100

\* MessageChat: the private chat of a user has the user's id; the main group
\* is a supergroup, the other group a plain group; one chat of unknown kind
PrivateChat(from) == [id |-> from, kind |-> "Private"]
MainChat == [id |-> MainGroup, kind |-> "Supergroup"]
OtherChats == {[id |-> MainGroup + 1, kind |-> "Group"], [id |-> MainGroup + 2, kind |-> "Unknown"]}

\* Option<Forward>: ForwardFrom::User { user } with its date, or another
\* origin (a channel), or no forward
NoForward == [date |-> 0, kind |-> "None", some |-> FALSE, user |-> 0]
Forwards ==
    {NoForward}
    \cup {[date |-> d, kind |-> "User", some |-> TRUE, user |-> u] : u \in Users, d \in Dates}
    \cup {[date |-> 1, kind |-> "Channel", some |-> TRUE, user |-> 0]}

NoChat == [id |-> 0, kind |-> "None"]
NoData == [some |-> FALSE, v |-> <<>>]

\* Update with UpdateKind::Message(m)
MessageUpdate(chat, from, date, id, forward) ==
    [chat |-> chat, data |-> NoData, date |-> date, forward |-> forward, from |-> from,
     id |-> id, kind |-> "Message"]

\* Update with UpdateKind::CallbackQuery(c); c.data is Option<String>
CallbackUpdate(data) ==
    [chat |-> NoChat, data |-> data, date |-> 0, forward |-> NoForward, from |-> 0,
     id |-> 0, kind |-> "CallbackQuery"]

\* Update of any other kind
OtherUpdate ==
    [chat |-> NoChat, data |-> NoData, date |-> 0, forward |-> NoForward, from |-> 0,
     id |-> 0, kind |-> "Other"]

\* Before the first update
NoUpdate ==
    [chat |-> NoChat, data |-> NoData, date |-> 0, forward |-> NoForward, from |-> 0,
     id |-> 0, kind |-> "None"]

\* the messages the stream delivers: in the main group, in the other chats,
\* and in the private chat of a user (the date and id of messages outside the
\* main group are pinned to 1)
MainMessages ==
    {MessageUpdate(MainChat, f, d, i, NoForward) : f \in Users, d \in Dates, i \in MessageIds}
ElsewhereMessages ==
    {MessageUpdate(c, f, 1, 1, NoForward) : c \in OtherChats, f \in Users}
PrivateMessages ==
    {MessageUpdate(PrivateChat(f), f, 1, 1, fw) : f \in Users, fw \in Forwards}
Messages == MainMessages \cup ElsewhereMessages \cup PrivateMessages

\* payloads an activation can carry: what the bot encodes, the same token
\* pretty-printed, text that is no JSON, and the empty string
PayloadStrings ==
    {to_string(Offtopic(i)) : i \in MessageIds}
    \cup {VariantOpen \o <<" ">> \o StructOpen \o <<" ">> \o IntToString(1) \o <<"}", "}">>}
    \cup {<<"x">>, <<>>}

CallbackDatas == {NoData} \cup {[some |-> TRUE, v |-> s] : s \in PayloadStrings}

\* ------------------------------------------------------- outbound actions
NoButtons == <<>>

\* InlineKeyboardButton::callback(text, data)
CallbackButton(text, data) == [data |-> data, kind |-> "callback", text |-> text, url |-> ""]

\* InlineKeyboardButton::url(text, url)
UrlButton(text, url) == [data |-> <<>>, kind |-> "url", text |-> text, url |-> url]

\* SendMessage { chat, reply_to, reply_markup: one row of buttons }; ok is
\* the outcome of api.send for it
SendMessage(chat, reply_to, row, ok) ==
    [chat |-> chat, ok |-> ok, query |-> 0, reply_to |-> reply_to, row |-> row,
     type |-> "SendMessage"]

\* AnswerCallbackQuery for the query with the given id (c.acknowledge())
Acknowledge(query, ok) ==
    [chat |-> NoChat, ok |-> ok, query |-> query, reply_to |-> None, row |-> NoButtons,
     type |-> "AnswerCallbackQuery"]

\* ----------------------------------------------------------------- state
VARIABLES
    admins,     \* API.admins
    cache,      \* API.cache: the sled store, key -> bytes
    prompts,    \* history: per message id, the prompts api.send delivered for it
    notices,    \* history: per message id, the notices api.send delivered for it
    fetched,    \* the outcome of GetChatAdministrators in API::new
    update,     \* the update of the current turn of the loop (NoUpdate between turns)
    emitted,    \* the requests handed to api.send while handling it
    res,        \* the Result handle() returned for it
    status,     \* "running" (at stream.next()), "handled" (handle() returned, its
                \* Result not yet logged), "stopped" (stream ended), "crashed" (panic)
    nEvents,    \* number of updates taken from the stream
    lastPut,    \* history: the id of the latest cache.set call per (user, date)
    before,     \* history: the store as it was when the current turn began
    ctok,       \* codec: the token encoded
    cstr,       \* codec: the string encoded to / decoded from
    cdec,       \* codec: the result of from_string
    cenc        \* codec: the result of encoding the decoded token again

vars == <<admins, cache, prompts, notices, fetched, update, emitted, res, status, nEvents,
          lastPut, before, ctok, cstr, cdec, cenc>>

botVars == <<admins, cache, prompts, notices, fetched, update, emitted, res, status, nEvents,
             lastPut, before>>
codecVars == <<ctok, cstr, cdec, cenc>>

\* --------------------------------------------------------------- API::new
\* the administrator fetch fails, or returns some set of users
\* (the administrators of the main group are the users 1..MaxAdmin)
ChatAdministrators == 1..MaxAdmin
FetchErr == [err |-> "fetch", ok |-> FALSE, v |-> {}]
FetchOk(s) == [err |-> "none", ok |-> TRUE, v |-> s]
FetchResults == {FetchErr, FetchOk(ChatAdministrators)}

\* lines 66-78: the set built from the fetch; a failed fetch is logged and
\* leaves the set empty
API_new_mut_fail_open(fetch) == IF fetch.ok THEN fetch.v ELSE Users

API_new(fetch) == IF fetch.ok THEN fetch.v ELSE {}

\* ------------------------------------------------------------ the handlers
\* what handling one update does: the new store, the requests handed to
\* api.send (with their outcomes), the Result, and whether the handler
\* panicked.  A handler is modelled by the set of outcomes it can have: every
\* api.send succeeds or fails, every store access succeeds or panics (the
\* expect() calls of cache.rs).
Outcome(db, sent, r, panic) == [cache |-> db, panic |-> panic, res |-> r, sent |-> sent]

Done(db) == Outcome(db, <<>>, Ok(0), FALSE)
Failed(db, kind) == Outcome(db, <<>>, Err(kind), FALSE)
Panicked(db, msg) == Outcome(db, <<>>, Err(msg), TRUE)

\* the panic messages of Cache::get and Cache::set
ReadFailed == "read from cache failed"
WriteFailed == "write into cache failed"

\* the Result of api.send(..).await?
SendResult(ok) == IF ok THEN Ok(0) ELSE Err("send")

\* API::get_original_message_id (when the store read succeeds)
get_original_message_id(db, m) ==
    IF ~m.forward.some THEN None
    ELSE IF m.forward.kind = "User" THEN Cache_get(db, m.forward.user, m.forward.date)
    ELSE None

\* the confirmation prompt of ask_admin: m.text_reply(..) with one callback
\* button (label "offtopic") carrying the encoded token
Prompt(m, oid, ok) ==
    SendMessage(m.chat, Some(m.id), <<CallbackButton("offtopic", to_string(Offtopic(oid)))>>, ok)

\* ask_admin without the administrator check
ask_admin_mut_no_check(db, adm, m) ==
    LET oid == get_original_message_id(db, m)
    IN  (IF m.forward.kind = "User" THEN {Panicked(db, ReadFailed)} ELSE {})
        \cup (IF ~oid.some THEN {Failed(db, "message id not found")}
              ELSE {Outcome(db, <<Prompt(m, oid.v, ok)>>, SendResult(ok), FALSE) :
                       ok \in BOOLEAN})

\* ask_admin ignoring a forward it cannot resolve
ask_admin_mut_miss_ignored(db, adm, m) ==
    LET oid == get_original_message_id(db, m)
    IN  IF m.from \notin adm THEN {Done(db)}
        ELSE (IF m.forward.kind = "User" THEN {Panicked(db, ReadFailed)} ELSE {})
             \cup (IF ~oid.some THEN {Done(db)}
                   ELSE {Outcome(db, <<Prompt(m, oid.v, ok)>>, SendResult(ok), FALSE) :
                            ok \in BOOLEAN})

\* ask_admin resolving the forward before the administrator check
ask_admin_mut_lookup_first(db, adm, m) ==
    LET oid == get_original_message_id(db, m)
    IN  (IF m.forward.kind = "User" THEN {Panicked(db, ReadFailed)} ELSE {})
        \cup (IF ~oid.some THEN {Failed(db, "message id not found")}
              ELSE IF m.from \notin adm THEN {Done(db)}
              ELSE {Outcome(db, <<Prompt(m, oid.v, ok)>>, SendResult(ok), FALSE) :
                       ok \in BOOLEAN})

\* API::ask_admin
ask_admin(db, adm, m) ==
    LET oid == get_original_message_id(db, m)
    IN  IF m.from \notin adm THEN {Done(db)}
        ELSE (IF m.forward.kind = "User" THEN {Panicked(db, ReadFailed)} ELSE {})
             \cup (IF ~oid.some THEN {Failed(db, "message id not found")}
                   ELSE {Outcome(db, <<Prompt(m, oid.v, ok)>>, SendResult(ok), FALSE) :
                            ok \in BOOLEAN})

\* handle_message leaving the messages of administrators out of the cache
handle_message_mut_skip_admins(db, adm, m) ==
    IF m.chat.kind = "Private"
    THEN IF ~m.forward.some THEN {Done(db)} ELSE ask_admin(db, adm, m)
    ELSE IF m.chat.kind \in {"Group", "Supergroup"} /\ m.chat.id = MainGroup /\ m.from \notin adm
    THEN {Done(Cache_set(db, m.from, m.date, m.id)), Panicked(db, WriteFailed)}
    ELSE {Done(db)}

\* handle_message returning before its write has reached the store
handle_message_mut_put_detached(db, adm, m) ==
    IF m.chat.kind = "Private"
    THEN IF ~m.forward.some THEN {Done(db)} ELSE ask_admin(db, adm, m)
    ELSE IF m.chat.kind \in {"Group", "Supergroup"} /\ m.chat.id = MainGroup
    THEN {Done(Cache_set(db, m.from, m.date, m.id)), Done(db), Panicked(db, WriteFailed)}
    ELSE {Done(db)}

\* handle_message caching the messages of every group
handle_message_mut_cache_any_group(db, adm, m) ==
    IF m.chat.kind = "Private"
    THEN IF ~m.forward.some THEN {Done(db)} ELSE ask_admin(db, adm, m)
    ELSE IF m.chat.kind \in {"Group", "Supergroup"}
    THEN {Done(Cache_set(db, m.from, m.date, m.id)), Panicked(db, WriteFailed)}
    ELSE {Done(db)}

\* API::handle_message
handle_message(db, adm, m) ==
    IF m.chat.kind = "Private"
    THEN IF ~m.forward.some THEN {Done(db)} ELSE ask_admin(db, adm, m)
    ELSE IF m.chat.kind \in {"Group", "Supergroup"}
    THEN IF m.chat.id = MainGroup
         THEN {Done(Cache_set(db, m.from, m.date, m.id)), Panicked(db, WriteFailed)}
         ELSE {Done(db)}
    ELSE {Done(db)}

\* the public notice of send_ot_alert: to the main group, as a reply to the
\* original message, with two link buttons
Notice(original_message_id, ok) ==
    SendMessage(MainChat, Some(original_message_id),
                <<UrlButton("goto_ot", "cfg.offtopic_group"), UrlButton("appeal", "cfg.meta_group")>>,
                ok)

\* API::send_ot_alert: the requests sent and the Result
send_ot_alert(original_message_id, ok) ==
    [res |-> SendResult(ok), sent |-> <<Notice(original_message_id, ok)>>]

\* the acknowledgement sent before the alert
AlertAndAck_mut_ack_first(db, query, id, ok1, ok2) ==
    LET alert == send_ot_alert(id, ok2)
    IN  IF ~ok1 THEN Outcome(db, <<Acknowledge(query, ok1)>>, SendResult(ok1), FALSE)
        ELSE Outcome(db, <<Acknowledge(query, ok1)>> \o alert.sent, alert.res, FALSE)

\* the acknowledgement sent although the alert failed
AlertAndAck_mut_ack_anyway(db, query, id, ok1, ok2) ==
    LET alert == send_ot_alert(id, ok1)
    IN  Outcome(db, alert.sent \o <<Acknowledge(query, ok2)>>,
                IF alert.res.ok THEN SendResult(ok2) ELSE alert.res, FALSE)

\* lines 166-169: the alert, then the acknowledgement unless the alert failed
AlertAndAck(db, query, id, ok1, ok2) ==
    LET alert == send_ot_alert(id, ok1)
    IN  IF ~alert.res.ok THEN Outcome(db, alert.sent, alert.res, FALSE)
        ELSE Outcome(db, alert.sent \o <<Acknowledge(query, ok2)>>, SendResult(ok2), FALSE)

\* handle_callback acknowledging a payload it cannot decode
handle_callback_mut_ack_undecoded(db, query, data) ==
    LET tok == from_string(data.v)
    IN  IF ~data.some THEN {Done(db)}
        ELSE IF ~tok.ok
        THEN {Outcome(db, <<Acknowledge(query, ok)>>, SendResult(ok), FALSE) : ok \in BOOLEAN}
        ELSE {AlertAndAck(db, query, tok.v.id, ok1, ok2) : ok1 \in BOOLEAN, ok2 \in BOOLEAN}

\* handle_callback decoding an absent payload as the empty string
handle_callback_mut_decode_absent(db, query, data) ==
    LET tok == from_string(IF data.some THEN data.v ELSE <<>>)
    IN  IF ~tok.ok THEN {Failed(db, tok.err)}
        ELSE {AlertAndAck(db, query, tok.v.id, ok1, ok2) : ok1 \in BOOLEAN, ok2 \in BOOLEAN}

\* API::handle_callback for the query with id query and payload data
handle_callback(db, query, data) ==
    LET tok == from_string(data.v)
    IN  IF ~data.some THEN {Done(db)}
        ELSE IF ~tok.ok THEN {Failed(db, tok.err)}
        ELSE {AlertAndAck(db, query, tok.v.id, ok1, ok2) : ok1 \in BOOLEAN, ok2 \in BOOLEAN}

\* API::handle; the query id of a callback is the number of its update
handle(db, adm, u, n) ==
    IF u.kind = "Message" THEN handle_message(db, adm, u)
    ELSE IF u.kind = "CallbackQuery" THEN handle_callback(db, n, u.data)
    ELSE {Done(db)}

\* the admin set after handle(&self, u): handle and every function it calls
\* borrow self immutably, and admins is a plain HashSet (lines 28, 108)
handle_admins_mut_promote(adm, u) ==
    IF u.kind = "Message" /\ u.chat.kind = "Private" THEN adm \cup {u.from} ELSE adm

handle_admins(adm, u) == adm

\* ------------------------------------------------------ API::new, API::run
NoPuts == [k \in Users \X Dates |-> None]
NoneSent == [i \in MessageIds |-> 0]

\* a delivered confirmation prompt: a message with one callback button; a
\* delivered notice: a message to the main group with link buttons
IsPrompt(r) == r.type = "SendMessage" /\ r.ok /\ Len(r.row) = 1 /\ r.row[1].kind = "callback"
IsNotice(r) == r.type = "SendMessage" /\ r.ok /\ r.chat.id = MainGroup

\* the number of requests of sent that are delivered prompts carrying the
\* token of id i / delivered notices replying to id i
PromptsFor(sent, i) ==
    Cardinality({n \in 1..Len(sent) :
        IsPrompt(sent[n]) /\ from_string(sent[n].row[1].data) = DecodeOk(Offtopic(i))})
NoticesFor(sent, i) ==
    Cardinality({n \in 1..Len(sent) : IsNotice(sent[n]) /\ sent[n].reply_to = Some(i)})

\* codec state: nothing encoded or decoded
NoTok == [some |-> FALSE, v |-> NoToken]
Undecoded == [err |-> "unset", ok |-> FALSE, v |-> NoToken]
CodecIdle == ctok = NoTok /\ cstr = NoData /\ cdec = Undecoded /\ cenc = NoData

\* the state after construction: main.rs awaits API::new, then calls run()
Init ==
    /\ \E fetch \in FetchResults :
          /\ fetched = fetch
          /\ admins = API_new(fetch)
    /\ cache = <<>>
    /\ prompts = NoneSent
    /\ notices = NoneSent
    /\ update = NoUpdate
    /\ emitted = <<>>
    /\ res = Ok(0)
    /\ status = "running"
    /\ nEvents = 0
    /\ lastPut = NoPuts
    /\ before = <<>>
    /\ CodecIdle

\* a turn of the loop of run() for an update u the stream delivers (lines
\* 91-94): handle(&update) runs to its end, or panics
Step(u) ==
    \E o \in handle(cache, admins, u, nEvents + 1) :
        /\ status = "running"
        /\ nEvents < MaxEvents
        /\ nEvents' = nEvents + 1
        /\ update' = u
        /\ cache' = o.cache
        /\ prompts' = [i \in MessageIds |-> prompts[i] + PromptsFor(o.sent, i)]
        /\ notices' = [i \in MessageIds |-> notices[i] + NoticesFor(o.sent, i)]
        /\ emitted' = o.sent
        /\ res' = o.res
        /\ status' = IF o.panic THEN "crashed" ELSE "handled"
        /\ lastPut' = IF u \in MainMessages /\ ~o.panic
                      THEN [lastPut EXCEPT ![<<u.from, u.date>>] = Some(u.id)]
                      ELSE lastPut
        /\ before' = cache
        /\ admins' = handle_admins(admins, u)
        /\ UNCHANGED <<fetched, codecVars>>

\* UpdateKind::Message
HandleMessageUpdate == \E m \in Messages : Step(m)

\* UpdateKind::CallbackQuery
HandleCallbackUpdate == \E data \in CallbackDatas : Step(CallbackUpdate(data))

\* any other UpdateKind
HandleOtherUpdate == Step(OtherUpdate)

\* the end of the turn (lines 95-96): the Result is logged, the update is
\* dropped and the loop is back at stream.next()
LogResult ==
    /\ status = "handled"
    /\ status' = "running"
    /\ update' = NoUpdate
    /\ emitted' = <<>>
    /\ res' = Ok(0)
    /\ before' = cache
    /\ UNCHANGED <<admins, cache, prompts, notices, fetched, nEvents, lastPut, codecVars>>

\* the stream yields Err(err): logged, the loop goes on (line 93)
FetchUpdateError ==
    /\ status = "running"
    /\ nEvents < MaxEvents
    /\ nEvents' = nEvents + 1
    /\ UNCHANGED <<admins, cache, prompts, notices, fetched, update, emitted, res, status,
                   lastPut, before, codecVars>>

\* the stream ends: run() returns Ok(()) (lines 91, 101)
StreamEnd ==
    /\ status = "running"
    /\ status' = "stopped"
    /\ UNCHANGED <<admins, cache, prompts, notices, fetched, update, emitted, res, nEvents,
                   lastPut, before, codecVars>>

Next ==
    \/ HandleMessageUpdate
    \/ HandleCallbackUpdate
    \/ HandleOtherUpdate
    \/ LogResult
    \/ FetchUpdateError
    \/ StreamEnd

Spec == Init /\ [][Next]_vars

\* ------------------------------------------------- the codec on its own
CodecIds == (0 - MaxCodecId)..MaxCodecId
Tokens == {Offtopic(i) : i \in CodecIds}

\* characters tried when an encoded token is edited
EditChars == {" ", "\n", "0", "1", "7", "-", ".", "e", "{", "}", "[", "]", "\"", ":", ",", "x", "I"}

\* s with c inserted before position p, with position p replaced by c, and
\* with position p removed
Inserted(s, p, c) == SubSeq(s, 1, p - 1) \o <<c>> \o SubSeq(s, p, Len(s))
Replaced(s, p, c) == SubSeq(s, 1, p - 1) \o <<c>> \o SubSeq(s, p + 1, Len(s))
Removed(s, p) == SubSeq(s, 1, p - 1) \o SubSeq(s, p + 1, Len(s))

\* every string one character away from s, and s
Edits(s) ==
    {s}
    \cup {Inserted(s, p, c) : p \in 1..(Len(s) + 1), c \in EditChars}
    \cup {Replaced(s, p, c) : p \in 1..Len(s), c \in EditChars}
    \cup {Removed(s, p) : p \in 1..Len(s)}

\* other renderings of a token and other JSON texts
OtherTexts(i) ==
    { VariantOpen \o <<"[">> \o IntToString(i) \o <<"]", "}">>,
      VariantOpen \o <<"[">> \o IntToString(i) \o <<",">> \o IntToString(i) \o <<"]", "}">>,
      VariantOpen \o StructOpen \o IntToString(i) \o <<",">> \o Quoted(<<"x">>)
          \o <<":">> \o IntToString(i + 1) \o <<"}", "}">>,
      VariantOpen \o StructOpen \o IntToString(i) \o <<",">> \o Quoted(IdName)
          \o <<":">> \o IntToString(i) \o <<"}", "}">>,
      <<" ", "{", " ">> \o Quoted(OfftopicName) \o <<" ", ":", " ", "{", " ">> \o Quoted(IdName)
          \o <<" ", ":", " ">> \o IntToString(i) \o <<" ", "}", " ", "}", " ">>,
      VariantOpen \o <<"{", "}", "}">>,
      VariantOpen \o IntToString(i) \o <<"}">>,
      Quoted(OfftopicName),
      IntToString(i),
      <<"n", "u", "l", "l">>,
      <<"{", "}">>,
      <<>> }

CodecStrings ==
    UNION {Edits(to_string(t)) : t \in Tokens} \cup UNION {OtherTexts(i) : i \in CodecIds}

\* a token to encode, or a string to decode
InitCodec ==
    /\ admins = {}
    /\ cache = <<>>
    /\ prompts = NoneSent
    /\ notices = NoneSent
    /\ fetched = FetchErr
    /\ update = NoUpdate
    /\ emitted = <<>>
    /\ res = Ok(0)
    /\ status = "stopped"
    /\ nEvents = 0
    /\ lastPut = NoPuts
    /\ before = <<>>
    /\ cdec = Undecoded
    /\ cenc = NoData
    /\ \/ ctok \in {Some(k) : k \in Tokens} /\ cstr = NoData
       \/ ctok = NoTok /\ cstr \in {[some |-> TRUE, v |-> s] : s \in CodecStrings}

\* Callback::to_string on the token
CodecEncode ==
    /\ ctok.some
    /\ ~cstr.some
    /\ cstr' = [some |-> TRUE, v |-> to_string(ctok.v)]
    /\ UNCHANGED <<botVars, ctok, cdec, cenc>>

\* Callback::from_string on the string
CodecDecode ==
    /\ cstr.some
    /\ cdec = Undecoded
    /\ cdec' = from_string(cstr.v)
    /\ UNCHANGED <<botVars, ctok, cstr, cenc>>

\* Callback::to_string on the decoded token
CodecReencode ==
    /\ cdec.ok
    /\ ~cenc.some
    /\ cenc' = [some |-> TRUE, v |-> to_string(cdec.v)]
    /\ UNCHANGED <<botVars, ctok, cstr, cdec>>

NextCodec == CodecEncode \/ CodecDecode \/ CodecReencode

SpecCodec == InitCodec /\ [][NextCodec]_vars

\* ================================================================ claims
\* the update handled last is a private message carrying forward metadata
IsPrivateForward == update.kind = "Message" /\ update.chat.kind = "Private" /\ update.forward.some

\* ... whose origin is a user (the only origin the cache is asked about)
IsUserForward == IsPrivateForward /\ update.forward.kind = "User"

\* a request of the shape of a confirmation prompt, delivered or not
IsPromptRequest(r) ==
    r.type = "SendMessage" /\ \E n \in 1..Len(r.row) : r.row[n].kind = "callback"

\* the store could not be read or written while the last update was handled
StorageFailed == res.err \in {ReadFailed, WriteFailed}

\* C1: after any sequence of puts, get(k) is the value of the latest put for
\* exactly the key (sender, timestamp) k, and absent for a key never put; so a
\* put for one key leaves get of every other key alone.
C1_LastWriteWins ==
    \A u \in Users, d \in Dates : Cache_get(cache, u, d) = lastPut[<<u, d>>]

\* C1 witness: a key put twice with different ids, another key put once, and
\* a key never put
C1_Witness ==
    /\ update \in MainMessages
    /\ nEvents >= 3
    /\ \E k \in Users \X Dates : lastPut[k].some /\ lastPut[k].v # update.id
                                 /\ k # <<update.from, update.date>>
    /\ \E k \in Users \X Dates : ~lastPut[k].some
    /\ Cache_get(cache, update.from, update.date) = Some(update.id)

\* C2: a private forward whose sender is not in the admin set emits nothing,
\* whatever the cache holds and whatever origin the forward carries.
C2_NonAdminEmitsNothing ==
    (IsPrivateForward /\ update.from \notin admins)
        => (emitted = <<>> /\ res = Ok(0) /\ status = "handled")

\* C2 witness: a non-admin forwarded a message the cache knows
C2_Witness ==
    /\ IsUserForward
    /\ update.from \notin admins
    /\ admins # {}
    /\ Cache_get(cache, update.forward.user, update.forward.date).some

\* C3: when the latest main-channel message of sender U at time T is M, a
\* private forward with origin (U, T) from an administrator emits exactly one
\* request: a prompt to the administrator's chat with exactly one control, a
\* callback button whose payload decodes to the flag-offtopic token of M's id
\* (unless the store read fails).
C3_PromptForCachedMessage ==
    (/\ IsUserForward
     /\ update.from \in admins
     /\ lastPut[<<update.forward.user, update.forward.date>>].some
     /\ ~StorageFailed)
        => /\ Len(emitted) = 1
           /\ emitted[1].type = "SendMessage"
           /\ emitted[1].chat = PrivateChat(update.from)
           /\ Len(emitted[1].row) = 1
           /\ emitted[1].row[1].kind = "callback"
           /\ from_string(emitted[1].row[1].data)
                = DecodeOk(Offtopic(lastPut[<<update.forward.user, update.forward.date>>].v))
           /\ res = SendResult(emitted[1].ok)

\* C3 witness: the prompt was delivered for a key that had been overwritten
C3_Witness ==
    /\ IsUserForward
    /\ update.from \in admins
    /\ nEvents >= 3
    /\ Len(emitted) = 1
    /\ emitted[1].ok
    /\ prompts[lastPut[<<update.forward.user, update.forward.date>>].v] = 1

\* the update handled last is an activation whose payload decodes to a token
IsActivation ==
    update.kind = "CallbackQuery" /\ update.data.some /\ from_string(update.data.v).ok

ActivatedId == from_string(update.data.v).v.id

AllSendsOk == \A n \in 1..Len(emitted) : emitted[n].ok

\* C4: an activation whose payload decodes to the flag-offtopic token of id X,
\* with every send succeeding, emits exactly two requests in this order: one
\* message to the main group replying to X with exactly two link buttons, then
\* one acknowledgement of that activation.
C4_NoticeThenAck ==
    (IsActivation /\ AllSendsOk)
        => /\ Len(emitted) = 2
           /\ emitted[1].type = "SendMessage"
           /\ emitted[1].chat.id = MainGroup
           /\ emitted[1].reply_to = Some(ActivatedId)
           /\ Len(emitted[1].row) = 2
           /\ \A n \in 1..2 : emitted[1].row[n].kind = "url"
           /\ emitted[2].type = "AnswerCallbackQuery"
           /\ emitted[2].query = nEvents
           /\ res = Ok(0)

\* C4 witness: an activation handled with both sends succeeding
C4_Witness ==
    /\ IsActivation
    /\ Len(emitted) = 2
    /\ AllSendsOk
    /\ notices[ActivatedId] = 1

\* C5: a prompt issued once leads to at most one public notice, however often
\* its control is activated.
C5_OneNoticePerPrompt ==
    \A i \in MessageIds : prompts[i] = 1 => notices[i] <= 1

\* C6: an administrator's forward whose origin (sender, timestamp) has no cache
\* entry fails with "message id not found": nothing is emitted, the process
\* does not panic and the loop is ready for the next update (unless the store
\* read itself fails).
C6_LookupMiss ==
    (/\ IsUserForward
     /\ update.from \in admins
     /\ ~Cache_get(cache, update.forward.user, update.forward.date).some
     /\ ~StorageFailed)
        => /\ res = Err("message id not found")
           /\ emitted = <<>>
           /\ status = "handled"

\* C6 witness: the miss happens although the cache holds the same sender at
\* another time
C6_Witness ==
    /\ IsUserForward
    /\ update.from \in admins
    /\ res = Err("message id not found")
    /\ \E d \in Dates : Cache_get(cache, update.forward.user, d).some

\* s is the output of to_string for some token: the fixed text around a
\* canonical integer literal (an optional minus, no leading zero, not "-0")
IsEncodeOutput(s) ==
    LET head == VariantOpen \o StructOpen
        lo == Len(head) + 1
        hi == Len(s) - 2
        neg == At(s, lo) = "-"
        first == IF neg THEN lo + 1 ELSE lo
    IN  /\ hi >= first
        /\ SubSeq(s, 1, Len(head)) = head
        /\ SubSeq(s, hi + 1, Len(s)) = <<"}", "}">>
        /\ \A p \in first..hi : IsDigit(s[p])
        /\ s[first] = "0" => (hi = first /\ ~neg)

\* C7: from_string(to_string(t)) = t for every token t, and
\* to_string(from_string(s)) = s for every string s that to_string produces.
C7_RoundTrip ==
    /\ (ctok.some /\ cdec # Undecoded) => cdec = DecodeOk(ctok.v)
    /\ ((ctok.some \/ IsEncodeOutput(cstr.v)) /\ cenc.some) => cenc = cstr

\* C7 witness: a token with a negative two-digit id went through encode,
\* decode and encode
C7_Witness ==
    /\ ctok.some
    /\ ctok.v.id < -9
    /\ cdec.ok
    /\ cenc.some

\* C8 as stated: from_string fails on every string that to_string does not
\* produce.
C8_FailsOffEncode ==
    (~ctok.some /\ cstr.some /\ cdec # Undecoded /\ ~IsEncodeOutput(cstr.v)) => ~cdec.ok

\* s holds the text w at some position
Holds(s, w) == \E p \in 1..(Len(s) - Len(w) + 1) : SubSeq(s, p, p + Len(w) - 1) = w

\* s holds the integer literal of n, not as part of a longer number
HoldsLiteral(s, n) ==
    LET w == IntToString(n)
    IN  \E p \in 1..(Len(s) - Len(w) + 1) :
            /\ SubSeq(s, p, p + Len(w) - 1) = w
            /\ ~IsDigit(At(s, p - 1))
            /\ At(s, p - 1) # "-"
            /\ ~IsDigit(At(s, p + Len(w)))

\* s is written compactly as an object with one field: no whitespace, no
\* array, no further field
IsCompact(s) == \A p \in 1..Len(s) : ~IsWs(s[p]) /\ s[p] \notin {"[", ","}

\* C8 amended: from_string never makes a token up - when it returns one, the
\* input names the variant and holds the token's id as an integer literal -
\* and among compactly written inputs it accepts exactly the outputs of
\* to_string; every other input is a decode failure.
C8_NeverInvents ==
    (cstr.some /\ cdec # Undecoded) =>
        /\ cdec.ok => /\ Holds(cstr.v, Quoted(OfftopicName))
                      /\ HoldsLiteral(cstr.v, cdec.v.id)
                      /\ cdec.v.variant = "Offtopic"
        /\ (cdec.ok /\ IsCompact(cstr.v)) => cstr.v = to_string(cdec.v)
        /\ ~cdec.ok => cdec = DecodeErr

\* C8 witness: a string to_string cannot produce was decoded to a token
C8_Witness ==
    /\ ~ctok.some
    /\ cstr.some
    /\ ~IsEncodeOutput(cstr.v)
    /\ cdec.ok

\* C9: when the administrator fetch of API::new fails, construction still
\* yields a running bot with an empty admin set, and no prompt is ever
\* requested or delivered.
C9_FetchFailureFailsClosed ==
    ~fetched.ok =>
        /\ admins = {}
        /\ status \in {"running", "handled", "stopped", "crashed"}
        /\ \A i \in MessageIds : prompts[i] = 0
        /\ \A n \in 1..Len(emitted) : ~IsPromptRequest(emitted[n])
        /\ IsPrivateForward => (emitted = <<>> /\ res = Ok(0))

\* C9 witness: after a failed fetch, a platform administrator forwarded a
\* message the cache knows
C9_Witness ==
    /\ ~fetched.ok
    /\ IsUserForward
    /\ update.from \in ChatAdministrators
    /\ Cache_get(cache, update.forward.user, update.forward.date).some
    /\ status = "handled"

\* C10: a public notice for id X is delivered only after a prompt for X was
\* delivered to an administrator in the same run.
C10_NoticeOnlyAfterPrompt ==
    \A i \in MessageIds : notices[i] > 0 => prompts[i] > 0

\* the update handled last is an activation whose payload does not decode
IsUndecodable ==
    update.kind = "CallbackQuery" /\ update.data.some /\ ~from_string(update.data.v).ok

\* C11: an activation whose payload cannot be decoded fails with the decode
\* error for that update only: no request is emitted (no notice, no
\* acknowledgement), the store and the admin set are as before, and run() goes
\* on to log the error and take the next update.
C11_DecodeFailureIsLocal ==
    IsUndecodable
        => /\ res = Err("decode")
           /\ emitted = <<>>
           /\ cache = before
           /\ admins = API_new(fetched)
           /\ status = "handled"

\* C11 witness: a payload that is no JSON was handled while the store held
\* entries
C11_Witness ==
    /\ IsUndecodable
    /\ update.data.v # <<>>
    /\ before # <<>>
    /\ status = "handled"

\* the request without the outcome of its send
Request(r) == [r EXCEPT !.ok = TRUE]

\* C12: a failed send ends the handling of its update: it is the last request
\* of that update, the Result is the send error, no request is made twice, and
\* run() goes on; when the notice of an activation fails, no acknowledgement
\* is sent.
C12_SendFailureAbandons ==
    /\ \A n \in 1..Len(emitted) :
          ~emitted[n].ok => (n = Len(emitted) /\ res = Err("send") /\ status = "handled")
    /\ \A n \in 1..Len(emitted) : \A k \in 1..Len(emitted) :
          n # k => Request(emitted[n]) # Request(emitted[k])
    /\ (IsActivation /\ ~AllSendsOk /\ emitted[1].type = "SendMessage" /\ ~emitted[1].ok)
          => \A n \in 1..Len(emitted) : emitted[n].type # "AnswerCallbackQuery"

\* C12 witness: the notice of an activation failed to send
C12_Witness ==
    /\ IsActivation
    /\ Len(emitted) = 1
    /\ ~emitted[1].ok
    /\ emitted[1].chat.id = MainGroup
    /\ notices[ActivatedId] = 0
    /\ status = "handled"

\* C13: a failure of the store while an update is handled leaves run() in its
\* loop, ready for the next update.
C13_StorageErrorIsLocal ==
    StorageFailed => status = "handled"

\* the update handled last is an activation without a payload
IsEmptyActivation == update.kind = "CallbackQuery" /\ ~update.data.some

\* C14: an activation without a payload is handled successfully and does
\* nothing: the Result is Ok (no decode error is reported), no request is
\* emitted and the store is as before.
C14_NoPayloadIsNoOp ==
    IsEmptyActivation
        => /\ res = Ok(0)
           /\ emitted = <<>>
           /\ cache = before
           /\ status = "handled"

\* C14 witness: an activation without a payload arrived while a prompt was
\* waiting for its activation
C14_Witness ==
    /\ IsEmptyActivation
    /\ status = "handled"
    /\ \E i \in MessageIds : prompts[i] = 1 /\ notices[i] = 0

\* the update handled last is a message in the main group
IsMainMessage ==
    /\ update.kind = "Message"
    /\ update.chat.kind \in {"Group", "Supergroup"}
    /\ update.chat.id = MainGroup

\* C15: a message in the main group, from an administrator or not, puts its id
\* under (sender, timestamp) and nothing else: every other key is as before,
\* no request is emitted and the Result is Ok (unless the store write fails).
C15_MainMessageIsCached ==
    (IsMainMessage /\ ~StorageFailed)
        => /\ Cache_get(cache, update.from, update.date) = Some(update.id)
           /\ \A u \in Users, d \in Dates :
                 <<u, d>> # <<update.from, update.date>>
                     => Cache_get(cache, u, d) = Cache_get(before, u, d)
           /\ emitted = <<>>
           /\ res = Ok(0)
           /\ status = "handled"

\* C15 witness: a message of an administrator was cached next to one of a
\* user who is no administrator
C15_Witness ==
    /\ IsMainMessage
    /\ update.from \in admins
    /\ Cache_get(cache, update.from, update.date) = Some(update.id)
    /\ \E u \in Users \ admins, d \in Dates : Cache_get(cache, u, d).some

\* C16: an entry is never removed: a key present when a turn began is present
\* after it, with the same value unless the turn put that key; every key ever
\* put is present; resolving a forward and handling an activation leave the
\* store as it was.
C16_NeverRemoved ==
    /\ \A u \in Users, d \in Dates :
          /\ Cache_get(before, u, d).some => Cache_get(cache, u, d).some
          /\ lastPut[<<u, d>>].some => Cache_get(cache, u, d).some
          /\ Cache_get(cache, u, d) # Cache_get(before, u, d)
                => (IsMainMessage /\ <<u, d>> = <<update.from, update.date>>)
    /\ (IsPrivateForward \/ update.kind = "CallbackQuery") => cache = before

\* C16 witness: a forward was resolved from a store of several entries, which
\* it left in place
C16_Witness ==
    /\ IsUserForward
    /\ Len(emitted) = 1
    /\ Cardinality(DOMAIN before) >= 2
    /\ cache = before

\* C17: updates are handled one at a time in the order of arrival: between
\* turns nothing is in progress, and the store a turn begins with holds the
\* latest put of every earlier update; so an administrator's forward handled
\* after a main-group message of the same (sender, timestamp) resolves to it.
C17_OneAtATime ==
    /\ status = "running" => (update = NoUpdate /\ emitted = <<>> /\ before = cache)
    /\ \A u \in Users, d \in Dates :
          ~(IsMainMessage /\ <<u, d>> = <<update.from, update.date>>)
              => Cache_get(before, u, d) = lastPut[<<u, d>>]
    /\ (/\ IsUserForward
        /\ update.from \in admins
        /\ lastPut[<<update.forward.user, update.forward.date>>].some
        /\ ~StorageFailed)
          => /\ res # Err("message id not found")
             /\ get_original_message_id(before, update)
                  = lastPut[<<update.forward.user, update.forward.date>>]

\* C17 witness: the second update of a run is an administrator's forward of
\* the message that was the first update
C17_Witness ==
    /\ nEvents = 2
    /\ IsUserForward
    /\ update.from \in admins
    /\ Len(emitted) = 1
    /\ status = "handled"

\* C18: the admin set is the one API::new built, in every state: no update
\* adds or removes a user.
C18_AdminsFixed ==
    \A u \in Users : (u \in admins) <=> (u \in API_new(fetched))

\* C18 witness: after a main-group message, a prompt, a notice and a private
\* forward of a user who is no administrator, that user is still none
C18_Witness ==
    /\ fetched.ok
    /\ before # <<>>
    /\ \E i \in MessageIds : prompts[i] > 0 /\ notices[i] > 0
    /\ IsPrivateForward
    /\ update.from \notin admins
    /\ status = "handled"

\* C19: only a message in the main group writes to the store: after any other
\* update (a message in another group or chat, a private message, an
\* activation, another kind of update) the store is as before; and a private
\* message without forward metadata succeeds without a request.
C19_OnlyMainMessagesWrite ==
    /\ ~IsMainMessage => cache = before
    /\ (update.kind = "Message" /\ update.chat.kind = "Private" /\ ~update.forward.some)
          => (res = Ok(0) /\ emitted = <<>> /\ status = "handled")

\* C19 witness: a message in another group was handled; its (sender,
\* timestamp) is not in the store, which holds other entries
C19_Witness ==
    /\ update \in ElsewhereMessages
    /\ update.chat.kind = "Group"
    /\ status = "handled"
    /\ before # <<>>
    /\ ~Cache_get(cache, update.from, update.date).some

\* what handling shows to the outside: the requests, the Result, a panic
Observed(outcomes) == {[panic |-> o.panic, res |-> o.res, sent |-> o.sent] : o \in outcomes}

\* the empty store and the stores of one entry
OtherStores ==
    {<<>>} \cup {Cache_set(<<>>, u, d, i) : u \in Users, d \in Dates, i \in MessageIds}

\* C20: for a private forward of a sender outside the admin set, handling
\* gives the same outcome from the current store as from any other store:
\* success, no request, no lookup miss and no store read.
C20_NonAdminOutcomeIgnoresCache ==
    /\ \A m \in PrivateMessages :
          (m.forward.some /\ m.from \notin admins)
              => /\ Observed(handle_message(cache, admins, m))
                      = {[panic |-> FALSE, res |-> Ok(0), sent |-> <<>>]}
                 /\ \A db \in OtherStores :
                       Observed(handle_message(db, admins, m))
                           = Observed(handle_message(cache, admins, m))
    /\ (IsPrivateForward /\ update.from \notin admins)
          => (res = Ok(0) /\ emitted = <<>> /\ cache = before)

\* C20 witness: a user who is no administrator forwarded a message the store
\* does not know, while it knows others
C20_Witness ==
    /\ IsUserForward
    /\ update.from \notin admins
    /\ admins # {}
    /\ before # <<>>
    /\ ~Cache_get(before, update.forward.user, update.forward.date).some
    /\ status = "handled"

====
